---- MODULE Spec2Model ----
(***************************************************************************)
(* SafeTrack alert lifecycle: the AlertStorageManager of                   *)
(* src/lib/alert-storage.ts (active and archived alert collections kept in *)
(* localStorage) and the dashboard's detectCriticalAlerts of               *)
(* src/app/page.tsx.                                                       *)
(*                                                                         *)
(* localStorage maps a key to the array stored under it.  A key that is    *)
(* absent is held as the empty array: every reader of the two alert keys   *)
(* is `stored ? JSON.parse(stored) : []`.  An alert keeps the fields the   *)
(* store and the detector decide on (id, deviceId, timestamp, status,      *)
(* heartbeat, emailSent, archived, severity); location, latitude,          *)
(* longitude and coordinates are copied and never read.  The optional      *)
(* fields are held as archived = FALSE and severity = "NONE" when absent.  *)
(***************************************************************************)
EXTENDS Integers, Sequences, FiniteSets, TLC

VARIABLES localStorage, criticalAlerts, now, created, last, exported, panel, dashboard,
          tabs

vars == <<localStorage, criticalAlerts, now, created, last, exported, panel, dashboard, tabs>>

----------------------------------------------------------------------------
(* Bounds.  The two caps are the program's 1000 and 5000 scaled down.      *)

MAX_ACTIVE_ALERTS == 1

MAX_ARCHIVED_ALERTS == 1

MaxBatch == 1

MaxCritical == 2

----------------------------------------------------------------------------
(* Program constants.                                                      *)

STORAGE_KEY == "safetrack_critical_alerts"

ARCHIVED_KEY == "safetrack_archived_alerts"

LEGACY_KEY == "safetrack_alerts"

HISTORICAL_CACHE_KEY == "safetrack_historical_data"

Keys == {STORAGE_KEY, ARCHIVED_KEY, LEGACY_KEY, HISTORICAL_CACHE_KEY}

DefaultDaysToKeep == 30

----------------------------------------------------------------------------
(* The telemetry the endpoint delivers in this model and the clock.        *)

OldStamp == "2026-01-01"

NewStamp == "2026-02-09"

LateStamp == "2026-03-01"

Timestamps == {OldStamp, NewStamp, LateStamp}

\* new Date(timestamp), in days since 2025-12-31
DateDay(ts) ==
    IF ts = OldStamp THEN 1 ELSE IF ts = NewStamp THEN 40 ELSE IF ts = LateStamp THEN 60 ELSE 0

\* new Date(timestamp) is a valid date (not NaN)
IsDate(ts) == ts \in Timestamps

Today == 40

Reading(id, ts, panic, fall, hb) ==
    [id |-> id, timestamp |-> ts, panicstatus |-> panic, fallstatus |-> fall,
     heartbeat |-> hb]

Telemetry ==
    { Reading("A", OldStamp, TRUE,  FALSE, 121),
      Reading("A", NewStamp, FALSE, TRUE,  91),
      Reading("B", OldStamp, TRUE,  TRUE,  101),
      Reading("B", NewStamp, FALSE, TRUE,  90),
      Reading("B", NewStamp, FALSE, FALSE, 120) }

----------------------------------------------------------------------------
(* AlertStorageManager                                                     *)

AlertId(deviceId, ts) == deviceId \o "-" \o ts

HasId(alerts, id) == \E i \in 1..Len(alerts) : alerts[i].id = id

CountId(alerts, id) == Cardinality({i \in 1..Len(alerts) : alerts[i].id = id})

\* the thresholds taken inclusively
classifyAlertSeverityInclusive(alert) ==
    IF alert.heartbeat >= 120 THEN "CRITICAL"
    ELSE IF alert.heartbeat >= 100 THEN "HIGH"
    ELSE IF alert.heartbeat >= 90 THEN "MEDIUM"
    ELSE "LOW"

classifyAlertSeverity(alert) ==
    IF alert.heartbeat > 120 THEN "CRITICAL"
    ELSE IF alert.heartbeat > 100 THEN "HIGH"
    ELSE IF alert.heartbeat > 90 THEN "MEDIUM"
    ELSE "LOW"

getAllAlerts(ls) == ls[STORAGE_KEY]

getArchivedAlerts(ls) == ls[ARCHIVED_KEY]

\* slice(0, n)
Take(s, n) == SubSeq(s, 1, IF Len(s) < n THEN Len(s) ELSE n)

\* slice(n)
Drop(s, n) == SubSeq(s, n + 1, Len(s))

\* the archived copy built afresh, its emailSent flag not carried over
MarkArchivedUnsent(alerts) ==
    [i \in 1..Len(alerts) |-> [alerts[i] EXCEPT !.archived = TRUE, !.emailSent = FALSE]]

MarkArchived(alerts) == [i \in 1..Len(alerts) |-> [alerts[i] EXCEPT !.archived = TRUE]]

\* the newly archived records appended instead of prepended
archiveAlertsAppended(ls, alerts, fail) ==
    LET existingArchived == getArchivedAlerts(ls)
        updatedArchived  == existingArchived \o MarkArchived(alerts)
        limitedArchived  == Take(updatedArchived, MAX_ARCHIVED_ALERTS)
    IN  IF ARCHIVED_KEY \in fail
        THEN [ls |-> ls, ret |-> FALSE]
        ELSE [ls |-> [ls EXCEPT ![ARCHIVED_KEY] = limitedArchived], ret |-> TRUE]

\* fail: the keys whose setItem throws during this call (quota exceeded)
archiveAlerts(ls, alerts, fail) ==
    LET existingArchived == getArchivedAlerts(ls)
        updatedArchived  == MarkArchived(alerts) \o existingArchived
        limitedArchived  == Take(updatedArchived, MAX_ARCHIVED_ALERTS)
    IN  IF ARCHIVED_KEY \in fail
        THEN [ls |-> ls, ret |-> FALSE]
        ELSE [ls |-> [ls EXCEPT ![ARCHIVED_KEY] = limitedArchived], ret |-> TRUE]

\* the stored id compared with the deviceId of the new alert
isDuplicateAgainstObject(existingAlerts, alert) ==
    \E i \in 1..Len(existingAlerts) : existingAlerts[i].id = alert.deviceId

\* existingAlerts.some((existing) => existing.id === alert.id)
isDuplicate(existingAlerts, alert) ==
    \E i \in 1..Len(existingAlerts) : existingAlerts[i].id = alert.id

saveAlert(ls, alert, fail) ==
    LET existingAlerts == getAllAlerts(ls)
        classified     == [alert EXCEPT !.severity = classifyAlertSeverity(alert)]
        updatedAlerts  == <<classified>> \o existingAlerts
        overflow       == Len(updatedAlerts) > MAX_ACTIVE_ALERTS
        afterArchive   == IF overflow
                          THEN archiveAlerts(ls, Drop(updatedAlerts, MAX_ACTIVE_ALERTS), fail).ls
                          ELSE ls
        activeAlerts   == IF overflow
                          THEN Take(updatedAlerts, MAX_ACTIVE_ALERTS)
                          ELSE updatedAlerts
    IN  IF isDuplicate(existingAlerts, alert)
        THEN [ls |-> ls, ret |-> FALSE, alert |-> alert]
        ELSE IF STORAGE_KEY \in fail
        THEN [ls |-> afterArchive, ret |-> FALSE, alert |-> classified]
        ELSE [ls |-> [afterArchive EXCEPT ![STORAGE_KEY] = activeAlerts],
              ret |-> TRUE, alert |-> classified]

\* the list to filter read from the archive instead of the active collection
deleteAlertFromArchived(ls, alertId, fail) ==
    LET alerts        == getArchivedAlerts(ls)
        updatedAlerts == SelectSeq(alerts, LAMBDA a : a.id # alertId)
    IN  IF STORAGE_KEY \in fail
        THEN [ls |-> ls, ret |-> FALSE]
        ELSE [ls |-> [ls EXCEPT ![STORAGE_KEY] = updatedAlerts], ret |-> TRUE]

deleteAlert(ls, alertId, fail) ==
    LET alerts        == getAllAlerts(ls)
        updatedAlerts == SelectSeq(alerts, LAMBDA a : a.id # alertId)
    IN  IF STORAGE_KEY \in fail
        THEN [ls |-> ls, ret |-> FALSE]
        ELSE [ls |-> [ls EXCEPT ![STORAGE_KEY] = updatedAlerts], ret |-> TRUE]

\* removeItem never throws on quota
clearAllAlerts(ls) == [ls |-> [ls EXCEPT ![STORAGE_KEY] = <<>>], ret |-> TRUE]

clearArchivedAlerts(ls) == [ls |-> [ls EXCEPT ![ARCHIVED_KEY] = <<>>], ret |-> TRUE]

\* A comparison with an invalid date (NaN) is false on both sides.
\* the old records archived, the active collection not rewritten
cleanupOldAlertsArchiveOnly(ls, daysToKeep, nowDay, fail) ==
    LET cutoffDate      == nowDay - daysToKeep
        alerts          == getAllAlerts(ls)
        alertsToArchive == SelectSeq(alerts,
                              LAMBDA a : IsDate(a.timestamp) /\ DateDay(a.timestamp) < cutoffDate)
        afterArchive    == archiveAlerts(ls, alertsToArchive, fail).ls
    IN  IF Len(alertsToArchive) > 0
        THEN [ls |-> afterArchive, count |-> Len(alertsToArchive), raised |-> FALSE]
        ELSE [ls |-> ls, count |-> 0, raised |-> FALSE]

cleanupOldAlerts(ls, daysToKeep, nowDay, fail) ==
    LET cutoffDate      == nowDay - daysToKeep
        alerts          == getAllAlerts(ls)
        alertsToKeep    == SelectSeq(alerts,
                              LAMBDA a : IsDate(a.timestamp) /\ DateDay(a.timestamp) >= cutoffDate)
        alertsToArchive == SelectSeq(alerts,
                              LAMBDA a : IsDate(a.timestamp) /\ DateDay(a.timestamp) < cutoffDate)
        afterArchive    == archiveAlerts(ls, alertsToArchive, fail).ls
    IN  IF Len(alertsToArchive) > 0
        THEN IF STORAGE_KEY \in fail
             THEN [ls |-> afterArchive, count |-> 0, raised |-> TRUE]
             ELSE [ls |-> [afterArchive EXCEPT ![STORAGE_KEY] = alertsToKeep],
                   count |-> Len(alertsToArchive), raised |-> FALSE]
        ELSE [ls |-> ls, count |-> 0, raised |-> FALSE]

FindIndex(alerts, id) ==
    IF \E i \in 1..Len(alerts) : alerts[i].id = id
    THEN CHOOSE i \in 1..Len(alerts) :
            alerts[i].id = id /\ \A j \in 1..(i - 1) : alerts[j].id # id
    ELSE 0

\* the flag flipped instead of set
markEmailSentToggled(ls, alertId, fail) ==
    LET alerts     == getAllAlerts(ls)
        alertIndex == FindIndex(alerts, alertId)
    IN  IF alertIndex = 0
        THEN [ls |-> ls, ret |-> FALSE]
        ELSE IF STORAGE_KEY \in fail
        THEN [ls |-> ls, ret |-> FALSE]
        ELSE [ls |-> [ls EXCEPT ![STORAGE_KEY] =
                         [alerts EXCEPT ![alertIndex].emailSent = ~alerts[alertIndex].emailSent]],
              ret |-> TRUE]

markEmailSent(ls, alertId, fail) ==
    LET alerts     == getAllAlerts(ls)
        alertIndex == FindIndex(alerts, alertId)
    IN  IF alertIndex = 0
        THEN [ls |-> ls, ret |-> FALSE]
        ELSE IF STORAGE_KEY \in fail
        THEN [ls |-> ls, ret |-> FALSE]
        ELSE [ls |-> [ls EXCEPT ![STORAGE_KEY] =
                         [alerts EXCEPT ![alertIndex].emailSent = TRUE]],
              ret |-> TRUE]

\* the archivedAlerts of the document not written
importAlertsActiveOnly(ls, doc, fail) ==
    LET writeActive == doc.activeAlerts.isArray
        afterActive == IF writeActive
                       THEN [ls EXCEPT ![STORAGE_KEY] = doc.activeAlerts.items]
                       ELSE ls
    IN  IF ~doc.json THEN [ls |-> ls, ret |-> FALSE]
        ELSE IF writeActive /\ STORAGE_KEY \in fail THEN [ls |-> ls, ret |-> FALSE]
        ELSE [ls |-> afterActive, ret |-> TRUE]

\* An import document: json says whether the text parses to an object, and
\* each collection is held with isArray (present and array-typed) and items.
importAlerts(ls, doc, fail) ==
    LET writeActive   == doc.activeAlerts.isArray
        writeArchived == doc.archivedAlerts.isArray
        afterActive   == IF writeActive
                         THEN [ls EXCEPT ![STORAGE_KEY] = doc.activeAlerts.items]
                         ELSE ls
        afterArchived == IF writeArchived
                         THEN [afterActive EXCEPT ![ARCHIVED_KEY] = doc.archivedAlerts.items]
                         ELSE afterActive
    IN  IF ~doc.json THEN [ls |-> ls, ret |-> FALSE]
        ELSE IF writeActive /\ STORAGE_KEY \in fail THEN [ls |-> ls, ret |-> FALSE]
        ELSE IF writeArchived /\ ARCHIVED_KEY \in fail THEN [ls |-> afterActive, ret |-> FALSE]
        ELSE [ls |-> afterArchived, ret |-> TRUE]

\* the filters over the active collection; a date range is given in days
getAlertsByDevice(ls, deviceId) ==
    SelectSeq(getAllAlerts(ls), LAMBDA a : a.deviceId = deviceId)

getAlertsByStatus(ls, status) ==
    SelectSeq(getAllAlerts(ls), LAMBDA a : a.status = status)

getAlertsByDateRange(ls, startDay, endDay) ==
    SelectSeq(getAllAlerts(ls),
              LAMBDA a : /\ IsDate(a.timestamp)
                         /\ DateDay(a.timestamp) >= startDay
                         /\ DateDay(a.timestamp) <= endDay)

\* the counts of the statistics (oldestAlert, newestAlert and storageSize are
\* not held)
getStorageStats(ls) ==
    LET activeAlerts   == getAllAlerts(ls)
        archivedAlerts == getArchivedAlerts(ls)
        allAlerts      == activeAlerts \o archivedAlerts
    IN  [totalAlerts    |-> Len(allAlerts),
         panicAlerts    |-> Len(SelectSeq(allAlerts, LAMBDA a : a.status = "PANIC")),
         fallAlerts     |-> Len(SelectSeq(allAlerts, LAMBDA a : a.status = "FALL")),
         emailsSent     |-> Len(SelectSeq(allAlerts, LAMBDA a : a.emailSent)),
         archivedAlerts |-> Len(archivedAlerts)]

\* the includeArchived flag not looked at: the archive is always exported
exportAlertsWithArchive(ls, includeArchived) ==
    [json |-> TRUE,
     activeAlerts   |-> [isArray |-> TRUE, items |-> getAllAlerts(ls)],
     archivedAlerts |-> [isArray |-> TRUE, items |-> getArchivedAlerts(ls)]]

\* The export document as importAlerts reads it back: JSON text with the two
\* collections as arrays (exportDate and stats, which importAlerts does not
\* read, are not held).
exportAlerts(ls, includeArchived) ==
    LET activeAlerts   == getAllAlerts(ls)
        archivedAlerts == IF includeArchived THEN getArchivedAlerts(ls) ELSE <<>>
    IN  [json |-> TRUE,
         activeAlerts   |-> [isArray |-> TRUE, items |-> activeAlerts],
         archivedAlerts |-> [isArray |-> TRUE, items |-> archivedAlerts]]

----------------------------------------------------------------------------
(* Alert Detector (dashboard)                                              *)

\* the heartbeat threshold taken inclusively
isCriticalInclusive(device) ==
    (device.panicstatus \/ device.fallstatus) /\ device.heartbeat >= 90

isCritical(device) ==
    (device.panicstatus \/ device.fallstatus) /\ device.heartbeat > 90

\* the fall flag tested first
AlertStatusFallFirst(device) == IF device.fallstatus THEN "FALL" ELSE "PANIC"

AlertStatus(device) == IF device.panicstatus THEN "PANIC" ELSE "FALL"

\* the AlertData object literal the detector builds
NewAlert(device) ==
    [id        |-> AlertId(device.id, device.timestamp),
     deviceId  |-> device.id,
     timestamp |-> device.timestamp,
     status    |-> AlertStatus(device),
     heartbeat |-> device.heartbeat,
     emailSent |-> FALSE,
     archived  |-> FALSE,
     severity  |-> "NONE"]

\* existingAlerts.find((alert) => alert.id === alertId) is not undefined
Find(existingAlerts, alertId) ==
    \E i \in 1..Len(existingAlerts) : existingAlerts[i].id = alertId

\* One iteration of devices.forEach: st = [ls, newAlerts, cycle]; cycle logs,
\* per reading, what the iteration saw and did.
DetectOne(st, device, fail) ==
    LET alertId       == AlertId(device.id, device.timestamp)
        existingAlert == Find(getAllAlerts(st.ls), alertId)
        submit        == isCritical(device) /\ ~existingAlert
        r             == saveAlert(st.ls, NewAlert(device), fail)
        entry         == [device    |-> device,
                          existed   |-> existingAlert,
                          submitted |-> IF submit THEN <<NewAlert(device)>> ELSE <<>>,
                          saved     |-> submit /\ r.ret]
    IN  IF submit
        THEN [ls        |-> r.ls,
              newAlerts |-> IF r.ret THEN Append(st.newAlerts, r.alert) ELSE st.newAlerts,
              cycle     |-> Append(st.cycle, entry)]
        ELSE [st EXCEPT !.cycle = Append(st.cycle, entry)]

RECURSIVE DetectFrom(_, _, _, _)
DetectFrom(st, devices, i, fail) ==
    IF i > Len(devices) THEN st
    ELSE DetectFrom(DetectOne(st, devices[i], fail), devices, i + 1, fail)

detectCriticalAlerts(ls, devices, fail) ==
    DetectFrom([ls |-> ls, newAlerts |-> <<>>, cycle |-> <<>>], devices, 1, fail)

----------------------------------------------------------------------------
(* State machine.  last records the latest operation: its name, the alert  *)
(* id it was called with, what it returned, whether it raised to its       *)
(* caller, and for a detection cycle the log of its iterations.  created   *)
(* is the set of alert ids for which a saveAlert call of the detector has  *)
(* returned true.  criticalAlerts is the dashboard's in-memory list.       *)
(* exported is the document the last exportAlerts returned, with the store *)
(* it was taken from.  panel is the control panel: its in-memory list and  *)
(* the loop of a bulk send (the pending list it took, how many of them it  *)
(* has done, its two counters and the sends it has attempted).  dashboard  *)
(* is the dashboard component: whether it is mounted, its auto-refresh     *)
(* flag, its two timer refs (0 for null), the interval timers the browser  *)
(* holds, the number of fetchData calls that await their response, the     *)
(* readings displayed and the error message.  tabs holds, for each tab     *)
(* that runs a store operation step by step, the operation and the id it   *)
(* is about, where the tab is in the function, the alert saveAlert was     *)
(* called with and the list the tab has read.                              *)

AlertIds == {AlertId(r.id, r.timestamp) : r \in Telemetry}

Batches == UNION {[1..n -> Telemetry] : n \in 1..MaxBatch}

NoFault == {}

Faults == SUBSET {STORAGE_KEY, ARCHIVED_KEY}

\* a text that JSON.parse rejects
NotJson ==
    [json |-> FALSE,
     activeAlerts   |-> [isArray |-> FALSE, items |-> <<>>],
     archivedAlerts |-> [isArray |-> FALSE, items |-> <<>>]]

\* size: the number of active records the operation found; doc: the document
\* an importAlerts was called with
Done(op, id, ret, count, raised, cycle) ==
    [op |-> op, id |-> id, ret |-> ret, count |-> count, raised |-> raised,
     cycle |-> cycle, size |-> Len(getAllAlerts(localStorage)), doc |-> NotJson]

\* the browser tabs that run a store operation step by step
Tabs == {1, 2}

\* no tab is inside a store operation
NoTabs ==
    [t \in Tabs |-> [pc |-> "idle", op |-> "", alertId |-> "", alert |-> <<>>,
                     existingAlerts |-> <<>>, ret |-> FALSE]]

\* the dashboard before it is mounted: no timer, no fetch in flight
\* (overtaken: how many of the fetches in flight, the oldest ones, started
\* before a fetch that has already resolved)
NoDashboard ==
    [mounted |-> FALSE, isAutoRefreshEnabled |-> TRUE, intervalRef |-> 0,
     freshnessIntervalRef |-> 0, timers |-> {}, inflight |-> 0, overtaken |-> 0,
     data |-> <<>>, error |-> ""]

\* the control panel before it is mounted
NoPanel ==
    [alerts |-> <<>>, running |-> FALSE, pending |-> <<>>, index |-> 0,
     successCount |-> 0, failCount |-> 0, attempted |-> <<>>]

\* no document has been exported yet
NoExport ==
    [has |-> FALSE, includeArchived |-> FALSE, doc |-> NotJson,
     from |-> [k \in Keys |-> <<>>]]

IdsOf(alerts) == {alerts[i].id : i \in 1..Len(alerts)}

Init ==
    /\ localStorage = [k \in Keys |-> <<>>]
    /\ criticalAlerts = <<>>
    /\ now = Today
    /\ created = {}
    /\ last = [op |-> "init", id |-> "", ret |-> TRUE, count |-> 0, raised |-> FALSE,
               cycle |-> <<>>, size |-> 0, doc |-> NotJson]
    /\ exported = NoExport
    /\ panel = NoPanel
    /\ dashboard = NoDashboard
    /\ tabs = NoTabs

(* Operations of the AlertStorageManager, called on the singleton.         *)

SaveAlert(device, fail) ==
    LET r == saveAlert(localStorage, NewAlert(device), fail)
    IN  /\ localStorage' = r.ls
        /\ last' = Done("saveAlert", r.alert.id, r.ret, 0, FALSE, <<>>)
        /\ UNCHANGED <<criticalAlerts, now, created>>
        /\ UNCHANGED <<exported, panel, dashboard, tabs>>

CleanupOldAlerts(fail) ==
    LET r == cleanupOldAlerts(localStorage, DefaultDaysToKeep, now, fail)
    IN  /\ localStorage' = r.ls
        /\ last' = Done("cleanupOldAlerts", "", ~r.raised, r.count, r.raised, <<>>)
        /\ UNCHANGED <<criticalAlerts, now, created>>
        /\ UNCHANGED <<exported, panel, dashboard, tabs>>

DeleteAlert(alertId, fail) ==
    LET r == deleteAlert(localStorage, alertId, fail)
    IN  /\ localStorage' = r.ls
        /\ last' = Done("deleteAlert", alertId, r.ret, 0, FALSE, <<>>)
        /\ UNCHANGED <<criticalAlerts, now, created>>
        /\ UNCHANGED <<exported, panel, dashboard, tabs>>

MarkEmailSent(alertId, fail) ==
    LET r == markEmailSent(localStorage, alertId, fail)
    IN  /\ localStorage' = r.ls
        /\ last' = Done("markEmailSent", alertId, r.ret, 0, FALSE, <<>>)
        /\ UNCHANGED <<criticalAlerts, now, created>>
        /\ UNCHANGED <<exported, panel, dashboard, tabs>>

ClearAllAlerts ==
    /\ localStorage' = clearAllAlerts(localStorage).ls
    /\ last' = Done("clearAllAlerts", "", TRUE, 0, FALSE, <<>>)
    /\ UNCHANGED <<criticalAlerts, now, created>>
    /\ UNCHANGED <<exported, panel, dashboard, tabs>>

ClearArchivedAlerts ==
    /\ localStorage' = clearArchivedAlerts(localStorage).ls
    /\ last' = Done("clearArchivedAlerts", "", TRUE, 0, FALSE, <<>>)
    /\ UNCHANGED <<criticalAlerts, now, created>>
    /\ UNCHANGED <<exported, panel, dashboard, tabs>>

ImportAlerts(doc, fail) ==
    LET r == importAlerts(localStorage, doc, fail)
    IN  /\ localStorage' = r.ls
        /\ last' = [Done("importAlerts", "", r.ret, 0, FALSE, <<>>) EXCEPT !.doc = doc]
        /\ UNCHANGED <<criticalAlerts, now, created>>
        /\ UNCHANGED <<exported, panel, dashboard, tabs>>

\* exportAlerts: the document goes to the caller; from is the store it was
\* taken from
ExportAlerts(includeArchived) ==
    /\ exported' = [has |-> TRUE, includeArchived |-> includeArchived,
                    doc |-> exportAlerts(localStorage, includeArchived),
                    from |-> localStorage]
    /\ last' = Done("exportAlerts", "", TRUE, 0, FALSE, <<>>)
    /\ UNCHANGED <<localStorage, criticalAlerts, now, created, panel, dashboard, tabs>>

\* the document of the last export is imported
ImportExported ==
    /\ exported.has
    /\ ImportAlerts(exported.doc, NoFault)

\* the reads: count is the length of the list returned, or totalAlerts
GetAllAlerts ==
    /\ last' = Done("getAllAlerts", "", TRUE, Len(getAllAlerts(localStorage)), FALSE, <<>>)
    /\ UNCHANGED <<localStorage, criticalAlerts, now, created, exported, panel, dashboard, tabs>>

GetArchivedAlerts ==
    /\ last' = Done("getArchivedAlerts", "", TRUE, Len(getArchivedAlerts(localStorage)),
                    FALSE, <<>>)
    /\ UNCHANGED <<localStorage, criticalAlerts, now, created, exported, panel, dashboard, tabs>>

GetAlertsByDevice(deviceId) ==
    /\ last' = Done("getAlertsByDevice", deviceId, TRUE,
                    Len(getAlertsByDevice(localStorage, deviceId)), FALSE, <<>>)
    /\ UNCHANGED <<localStorage, criticalAlerts, now, created, exported, panel, dashboard, tabs>>

GetAlertsByStatus(status) ==
    /\ last' = Done("getAlertsByStatus", status, TRUE,
                    Len(getAlertsByStatus(localStorage, status)), FALSE, <<>>)
    /\ UNCHANGED <<localStorage, criticalAlerts, now, created, exported, panel, dashboard, tabs>>

GetAlertsByDateRange(startDay, endDay) ==
    /\ last' = Done("getAlertsByDateRange", "", TRUE,
                    Len(getAlertsByDateRange(localStorage, startDay, endDay)), FALSE, <<>>)
    /\ UNCHANGED <<localStorage, criticalAlerts, now, created, exported, panel, dashboard, tabs>>

GetStorageStats ==
    /\ last' = Done("getStorageStats", "", TRUE, getStorageStats(localStorage).totalAlerts,
                    FALSE, <<>>)
    /\ UNCHANGED <<localStorage, criticalAlerts, now, created, exported, panel, dashboard, tabs>>

(* Handlers of the dashboard.                                              *)

\* a poll delivers a batch and detectCriticalAlerts runs on it
DetectCriticalAlerts(devices, fail) ==
    LET r == detectCriticalAlerts(localStorage, devices, fail)
    IN  /\ Len(criticalAlerts) + Len(r.newAlerts) <= MaxCritical
        /\ localStorage' = r.ls
        /\ criticalAlerts' = IF Len(r.newAlerts) > 0
                             THEN criticalAlerts \o r.newAlerts
                             ELSE criticalAlerts
        /\ created' = created \cup IdsOf(r.newAlerts)
        /\ last' = Done("detect", "", Len(r.newAlerts) > 0, Len(r.newAlerts), FALSE, r.cycle)
        /\ UNCHANGED now
        /\ UNCHANGED <<exported, panel, dashboard, tabs>>

\* the Cleanup button
HandleCleanup(fail) ==
    LET r == cleanupOldAlerts(localStorage, DefaultDaysToKeep, now, fail)
    IN  /\ localStorage' = r.ls
        /\ criticalAlerts' = IF ~r.raised /\ r.count > 0
                             THEN getAllAlerts(r.ls)
                             ELSE criticalAlerts
        /\ last' = Done("handleCleanup", "", ~r.raised, r.count, r.raised, <<>>)
        /\ UNCHANGED <<now, created>>
        /\ UNCHANGED <<exported, panel, dashboard, tabs>>

\* the Clear Cache button: removes the two keys it names and resets the
\* in-memory list
ClearCache ==
    /\ localStorage' = [localStorage EXCEPT ![HISTORICAL_CACHE_KEY] = <<>>,
                                            ![LEGACY_KEY] = <<>>, ![ARCHIVED_KEY] = <<>>]
    /\ criticalAlerts' = <<>>
    /\ last' = Done("clearCache", "", TRUE, 0, FALSE, <<>>)
    /\ UNCHANGED <<now, created>>
    /\ UNCHANGED <<exported, panel, dashboard, tabs>>

\* window focus / page visible: the in-memory list is reloaded from the store
HandleFocus ==
    /\ criticalAlerts' = getAllAlerts(localStorage)
    /\ last' = Done("focus", "", TRUE, 0, FALSE, <<>>)
    /\ UNCHANGED <<localStorage, now, created>>
    /\ UNCHANGED <<exported, panel, dashboard, tabs>>

\* the Logout button: removes the two keys it names and leaves the dashboard,
\* whose next mount starts from an empty in-memory list
HandleLogout ==
    /\ localStorage' = [localStorage EXCEPT ![HISTORICAL_CACHE_KEY] = <<>>,
                                            ![LEGACY_KEY] = <<>>, ![ARCHIVED_KEY] = <<>>]
    /\ criticalAlerts' = <<>>
    /\ last' = Done("handleLogout", "", TRUE, 0, FALSE, <<>>)
    /\ UNCHANGED <<now, created>>
    /\ UNCHANGED <<exported, panel, dashboard, tabs>>

(* The dashboard's polling: the effect that owns the two interval timers,  *)
(* and fetchData, which awaits the telemetry and then runs the detection.  *)

\* most fetchData calls awaiting their response at one time
MaxInFlight == 2

\* readings kept per device in the historical store (the program's 100
\* scaled down)
HistoryCap == 1

\* setInterval: the id of the new timer, different from those the browser holds
NewTimerId(timers) ==
    CHOOSE n \in 1..(Cardinality(timers) + 1) : \A t \in timers : t.id # n

\* clearInterval
clearInterval(timers, id) == {t \in timers : t.id # id}

\* fetchData is called: its fetchDeviceData is now awaited
fetchStarted(d) == [d EXCEPT !.inflight = d.inflight + 1]

\* the cleanup with the freshness timer left running
effectCleanupPollOnly(d) ==
    IF d.intervalRef # 0
    THEN [d EXCEPT !.timers = clearInterval(d.timers, d.intervalRef), !.intervalRef = 0]
    ELSE d

\* the cleanup function the polling effect returns
effectCleanup(d) ==
    LET d1 == IF d.intervalRef # 0
              THEN [d EXCEPT !.timers = clearInterval(d.timers, d.intervalRef),
                             !.intervalRef = 0]
              ELSE d
    IN  IF d1.freshnessIntervalRef # 0
        THEN [d1 EXCEPT !.timers = clearInterval(d1.timers, d1.freshnessIntervalRef),
                        !.freshnessIntervalRef = 0]
        ELSE d1

\* the body of the polling effect for an authenticated user
effectBody(d) ==
    LET d1 == IF d.intervalRef # 0
              THEN [d EXCEPT !.timers = clearInterval(d.timers, d.intervalRef),
                             !.intervalRef = 0]
              ELSE d
        d2 == fetchStarted(d1)
        pollId  == NewTimerId(d2.timers)
        d3 == [d2 EXCEPT !.timers = d2.timers \cup {[id |-> pollId, kind |-> "poll"]},
                         !.intervalRef = pollId]
        freshId == NewTimerId(d3.timers)
    IN  IF d2.isAutoRefreshEnabled
        THEN [d3 EXCEPT !.timers = d3.timers \cup {[id |-> freshId, kind |-> "freshness"]},
                        !.freshnessIntervalRef = freshId]
        ELSE d2

\* historicalArray.findIndex((h) => h.id === device.id && h.timestamp ===
\* device.timestamp) is not -1
InHistory(historicalArray, device) ==
    \E i \in 1..Len(historicalArray) :
        historicalArray[i].id = device.id /\ historicalArray[i].timestamp = device.timestamp

\* newData.forEach: a reading is pushed unless its id and timestamp are there
RECURSIVE PushNew(_, _, _)
PushNew(historicalArray, newData, i) ==
    IF i > Len(newData) THEN historicalArray
    ELSE PushNew(IF InHistory(historicalArray, newData[i])
                 THEN historicalArray
                 ELSE Append(historicalArray, newData[i]), newData, i + 1)

\* Object.values(deviceGroups): the device ids in the order of their first
\* reading in the array, each with its readings in array order
RECURSIVE GroupIds(_)
GroupIds(historicalArray) ==
    IF historicalArray = <<>> THEN <<>>
    ELSE <<historicalArray[1].id>>
            \o GroupIds(SelectSeq(Tail(historicalArray),
                                  LAMBDA h : h.id # historicalArray[1].id))

\* the reading put behind the readings that are not newer than it
InsertOldestFirst(sorted, h) ==
    LET ahead == SelectSeq(sorted, LAMBDA g : DateDay(g.timestamp) <= DateDay(h.timestamp))
    IN  ahead \o <<h>> \o SubSeq(sorted, Len(ahead) + 1, Len(sorted))

\* a reading put into a list that is sorted newest first, behind the
\* readings that are not older than it
InsertNewestFirst(sorted, h) ==
    LET ahead == SelectSeq(sorted, LAMBDA g : DateDay(g.timestamp) >= DateDay(h.timestamp))
    IN  ahead \o <<h>> \o SubSeq(sorted, Len(ahead) + 1, Len(sorted))

\* group.sort((a, b) => new Date(b.timestamp) - new Date(a.timestamp)): a
\* stable sort, newest first
RECURSIVE SortGroup(_)
SortGroup(group) ==
    IF group = <<>> THEN <<>>
    ELSE InsertNewestFirst(SortGroup(SubSeq(group, 1, Len(group) - 1)), group[Len(group)])

\* flatMap over the groups, each cut to its newest HistoryCap readings
RECURSIVE FlatGroups(_, _)
FlatGroups(historicalArray, ids) ==
    IF ids = <<>> THEN <<>>
    ELSE Take(SortGroup(SelectSeq(historicalArray, LAMBDA h : h.id = ids[1])), HistoryCap)
            \o FlatGroups(historicalArray, Tail(ids))

\* saveHistoricalData(newData) without a failing write
saveHistoricalData(ls, newData) ==
    LET historicalArray == PushNew(ls[HISTORICAL_CACHE_KEY], newData, 1)
    IN  [ls EXCEPT ![HISTORICAL_CACHE_KEY] =
            FlatGroups(historicalArray, GroupIds(historicalArray))]

\* what fetchDeviceData resolves to: the readings, or the empty list when
\* the request failed (network error, status not OK, abort at the timeout)
fetchDeviceData(response) == IF response.ok THEN response.devices ELSE <<>>

\* localStorage when fetchDeviceData resolves: the readings of a successful
\* request, unless there are none, have gone through saveHistoricalData
fetchDeviceDataStore(ls, response) ==
    IF response.ok /\ Len(response.devices) > 0
    THEN saveHistoricalData(ls, response.devices)
    ELSE ls

\* the component mounts: state as declared, then the effect
Mount ==
    /\ ~dashboard.mounted
    /\ dashboard.inflight < MaxInFlight
    /\ dashboard' = effectBody([dashboard EXCEPT !.mounted = TRUE,
                                                 !.isAutoRefreshEnabled = TRUE,
                                                 !.data = <<>>, !.error = ""])
    /\ criticalAlerts' = getAllAlerts(localStorage)
    /\ last' = Done("mount", "", TRUE, 0, FALSE, <<>>)
    /\ UNCHANGED <<localStorage, now, created, exported, panel, tabs>>

\* the Live/Paused button: the state changes and the effect runs again,
\* cleanup first
ToggleAutoRefresh ==
    /\ dashboard.mounted
    /\ dashboard.inflight < MaxInFlight
    /\ dashboard' = effectBody(effectCleanup(
                        [dashboard EXCEPT !.isAutoRefreshEnabled = ~dashboard.isAutoRefreshEnabled]))
    /\ criticalAlerts' = getAllAlerts(localStorage)
    /\ last' = Done("toggleAutoRefresh", "", TRUE, 0, FALSE, <<>>)
    /\ UNCHANGED <<localStorage, now, created, exported, panel, tabs>>

\* a render with a changed dependency: the effect runs again, cleanup first
EffectRerun ==
    /\ dashboard.mounted
    /\ dashboard.inflight < MaxInFlight
    /\ dashboard' = effectBody(effectCleanup(dashboard))
    /\ criticalAlerts' = getAllAlerts(localStorage)
    /\ last' = Done("effectRerun", "", TRUE, 0, FALSE, <<>>)
    /\ UNCHANGED <<localStorage, now, created, exported, panel, tabs>>

\* the component unmounts (navigation, logout)
Unmount ==
    /\ dashboard.mounted
    /\ dashboard' = [effectCleanup(dashboard) EXCEPT !.mounted = FALSE]
    /\ criticalAlerts' = <<>>
    /\ last' = Done("unmount", "", TRUE, 0, FALSE, <<>>)
    /\ UNCHANGED <<localStorage, now, created, exported, panel, tabs>>

\* a timer of the browser fires: the poll timer calls fetchData(true), the
\* freshness timer does when the data is stale
TimerFires(kind, stale) ==
    /\ \E t \in dashboard.timers : t.kind = kind
    /\ dashboard.inflight < MaxInFlight
    /\ dashboard' = IF kind = "poll" \/ stale THEN fetchStarted(dashboard) ELSE dashboard
    /\ last' = Done(kind, "", TRUE, 0, FALSE, <<>>)
    /\ UNCHANGED <<localStorage, criticalAlerts, now, created, exported, panel, tabs>>

\* the Refresh button
HandleManualRefresh ==
    /\ dashboard.mounted
    /\ dashboard.inflight < MaxInFlight
    /\ dashboard' = fetchStarted(dashboard)
    /\ last' = Done("manualRefresh", "", TRUE, 0, FALSE, <<>>)
    /\ UNCHANGED <<localStorage, criticalAlerts, now, created, exported, panel, tabs>>

\* the fetches in flight, oldest first, after the i-th of them has resolved:
\* those before it have now been overtaken
fetchResolved(d, i) ==
    [d EXCEPT !.inflight  = d.inflight - 1,
              !.overtaken = IF i <= d.overtaken THEN d.overtaken - 1 ELSE i - 1]

\* fetchDeviceData of one fetchData call, the i-th oldest in flight,
\* resolves: the rest of fetchData runs, the detection included (count:
\* fetches in flight before this one resolved; ret: whether the request
\* succeeded)
FetchCompleted(response, i) ==
    LET dataResponse == fetchDeviceData(response)
        r == detectCriticalAlerts(fetchDeviceDataStore(localStorage, response),
                                  dataResponse, NoFault)
    IN  /\ i \in 1..dashboard.inflight
        /\ Len(criticalAlerts) + Len(r.newAlerts) <= MaxCritical
        /\ localStorage' = r.ls
        /\ dashboard' = [fetchResolved(dashboard, i) EXCEPT
                            !.data = IF dashboard.mounted THEN dataResponse ELSE dashboard.data]
        /\ criticalAlerts' = IF dashboard.mounted /\ Len(r.newAlerts) > 0
                             THEN criticalAlerts \o r.newAlerts
                             ELSE criticalAlerts
        /\ created' = created \cup IdsOf(r.newAlerts)
        /\ last' = Done("fetchCompleted", "", response.ok, dashboard.inflight, FALSE, r.cycle)
        /\ UNCHANGED <<now, exported, panel, tabs>>

(* Control panel.                                                          *)

\* alerts.sort by timestamp, newest first (a stable sort over the two stamps)
SortNewestFirst(alerts) ==
    SelectSeq(alerts, LAMBDA a : a.timestamp = NewStamp)
       \o SelectSeq(alerts, LAMBDA a : a.timestamp = OldStamp)

\* what alert.id is inside sendAlertEmail, whose parameter is alertData:
\* alert there is the browser's window.alert, which has no id
WindowAlertId == "undefined"

\* sendAlertEmail(alertData) with the outcome of emailjs.send: ok is a
\* result of status 200, anything else ends in the catch block.  Nothing is
\* thrown to the caller either way.
sendAlertEmail(ls, alerts, alertData, ok) ==
    IF ok
    THEN [ls     |-> markEmailSent(ls, WindowAlertId, NoFault).ls,
          alerts |-> [i \in 1..Len(alerts) |->
                        IF alerts[i].id = WindowAlertId
                        THEN [alerts[i] EXCEPT !.emailSent = TRUE]
                        ELSE alerts[i]],
          thrown |-> FALSE]
    ELSE [ls |-> ls, alerts |-> alerts, thrown |-> FALSE]

\* the loop left at the first send that fails
sendNextPendingAborting(p, thrown, ok) ==
    [p EXCEPT !.index        = IF ok THEN p.index + 1 ELSE Len(p.pending),
              !.successCount = IF thrown THEN p.successCount ELSE p.successCount + 1,
              !.failCount    = IF thrown THEN p.failCount + 1 ELSE p.failCount,
              !.attempted    = Append(p.attempted, [id |-> p.pending[p.index + 1].id, ok |-> ok])]

\* one iteration of the loop of sendAllPendingEmails, after its
\* sendAlertEmail has returned (thrown: it rejected)
sendNextPending(p, thrown, ok) ==
    [p EXCEPT !.index        = p.index + 1,
              !.successCount = IF thrown THEN p.successCount ELSE p.successCount + 1,
              !.failCount    = IF thrown THEN p.failCount + 1 ELSE p.failCount,
              !.attempted    = Append(p.attempted, [id |-> p.pending[p.index + 1].id, ok |-> ok])]

\* mount, the 10-second interval and the refresh button
LoadCriticalAlerts ==
    /\ panel' = [panel EXCEPT !.alerts = SortNewestFirst(getAllAlerts(localStorage))]
    /\ last' = Done("loadCriticalAlerts", "", TRUE, Len(getAllAlerts(localStorage)), FALSE, <<>>)
    /\ UNCHANGED <<localStorage, criticalAlerts, now, created, exported, dashboard, tabs>>

\* the Send Email button of a listed alert that is not shown as sent
SendAlertEmail(i, ok) ==
    /\ i \in 1..Len(panel.alerts)
    /\ ~panel.alerts[i].emailSent
    /\ LET r == sendAlertEmail(localStorage, panel.alerts, panel.alerts[i], ok)
       IN  /\ localStorage' = r.ls
           /\ panel' = [panel EXCEPT !.alerts = r.alerts]
           /\ last' = Done("sendAlertEmail", panel.alerts[i].id, ok, 0, r.thrown, <<>>)
    /\ UNCHANGED <<criticalAlerts, now, created, exported, dashboard, tabs>>

\* sendAllPendingEmails up to its loop: the pending alerts of the in-memory
\* list, confirmed by the user (one bulk send at a time)
SendAllPendingEmails ==
    LET pendingAlerts == SelectSeq(panel.alerts, LAMBDA a : ~a.emailSent)
    IN  /\ ~panel.running
        /\ Len(pendingAlerts) > 0
        /\ panel' = [panel EXCEPT !.running = TRUE, !.pending = pendingAlerts, !.index = 0,
                                  !.successCount = 0, !.failCount = 0, !.attempted = <<>>]
        /\ last' = Done("sendAllPendingEmails", "", TRUE, Len(pendingAlerts), FALSE, <<>>)
        /\ UNCHANGED <<localStorage, criticalAlerts, now, created, exported, dashboard, tabs>>

\* one iteration of the loop
SendNextPending(ok) ==
    /\ panel.running
    /\ panel.index < Len(panel.pending)
    /\ LET alertItem == panel.pending[panel.index + 1]
           r == sendAlertEmail(localStorage, panel.alerts, alertItem, ok)
       IN  /\ localStorage' = r.ls
           /\ panel' = sendNextPending([panel EXCEPT !.alerts = r.alerts], r.thrown, ok)
           /\ last' = Done("sendNextPending", alertItem.id, ok, 0, FALSE, <<>>)
    /\ UNCHANGED <<criticalAlerts, now, created, exported, dashboard, tabs>>

\* the loop is over: the summary is shown and the list reloaded
BulkSendCompleted ==
    /\ panel.running
    /\ panel.index = Len(panel.pending)
    /\ panel' = [panel EXCEPT !.running = FALSE,
                              !.alerts = SortNewestFirst(getAllAlerts(localStorage))]
    /\ last' = Done("bulkSendCompleted", "", TRUE, panel.successCount, FALSE, <<>>)
    /\ UNCHANGED <<localStorage, criticalAlerts, now, created, exported, dashboard, tabs>>

(* saveAlert run by two tabs on the one localStorage of the origin, a tab  *)
(* being able to run between any two storage accesses of the other.        *)

\* the active cap in the specification of the tabs (the 1000 scaled to one
\* more than elsewhere, so that two records fit)
TabsActiveCap == MAX_ACTIVE_ALERTS + 1

\* saveAlert up to its duplicate check: the state of the tab after
\* getAllAlerts
saveAlertRead(ls, alert) ==
    LET existingAlerts == getAllAlerts(ls)
    IN  IF isDuplicate(existingAlerts, alert)
        THEN [pc |-> "done", op |-> "saveAlert", alertId |-> alert.id, alert |-> <<alert>>,
              existingAlerts |-> existingAlerts, ret |-> FALSE]
        ELSE [pc |-> "read", op |-> "saveAlert", alertId |-> alert.id,
              alert |-> <<[alert EXCEPT !.severity = classifyAlertSeverity(alert)]>>,
              existingAlerts |-> existingAlerts, ret |-> FALSE]

\* updatedAlerts of a tab
UpdatedAlerts(tab) == tab.alert \o tab.existingAlerts

\* the new record put in front of what the store holds at the time of the write
saveAlertWriteOntoStored(ls, tab) ==
    [ls EXCEPT ![STORAGE_KEY] = Take(tab.alert \o getAllAlerts(ls), TabsActiveCap)]

\* the setItem that ends saveAlert
saveAlertWrite(ls, tab) ==
    [ls EXCEPT ![STORAGE_KEY] = Take(UpdatedAlerts(tab), TabsActiveCap)]

TabReads(t, device) ==
    /\ tabs[t].pc = "idle"
    /\ tabs' = [tabs EXCEPT ![t] = saveAlertRead(localStorage, NewAlert(device))]
    /\ last' = Done("tabReads", AlertId(device.id, device.timestamp), tabs'[t].pc # "done",
                    t, FALSE, <<>>)
    /\ UNCHANGED <<localStorage, criticalAlerts, now, created, exported, panel, dashboard>>

TabArchives(t) ==
    /\ tabs[t].pc = "read"
    /\ Len(UpdatedAlerts(tabs[t])) > TabsActiveCap
    /\ localStorage' = archiveAlerts(localStorage, Drop(UpdatedAlerts(tabs[t]), TabsActiveCap),
                                     NoFault).ls
    /\ tabs' = [tabs EXCEPT ![t].pc = "archived"]
    /\ last' = Done("tabArchives", tabs[t].alert[1].id, TRUE, t, FALSE, <<>>)
    /\ UNCHANGED <<criticalAlerts, now, created, exported, panel, dashboard>>

TabWrites(t) ==
    /\ \/ tabs[t].pc = "archived"
       \/ tabs[t].pc = "read" /\ Len(UpdatedAlerts(tabs[t])) <= TabsActiveCap
    /\ localStorage' = saveAlertWrite(localStorage, tabs[t])
    /\ tabs' = [tabs EXCEPT ![t].pc = "done", ![t].ret = TRUE]
    /\ last' = Done("tabWrites", tabs[t].alert[1].id, TRUE, t, FALSE, <<>>)
    /\ UNCHANGED <<criticalAlerts, now, created, exported, panel, dashboard>>

\* deleteAlert up to its filter: the state of the tab after getAllAlerts
deleteAlertRead(ls, alertId) ==
    [pc |-> "readDelete", op |-> "deleteAlert", alertId |-> alertId, alert |-> <<>>,
     existingAlerts |-> getAllAlerts(ls), ret |-> FALSE]

\* the setItem that ends deleteAlert
deleteAlertWrite(ls, tab) ==
    [ls EXCEPT ![STORAGE_KEY] = SelectSeq(tab.existingAlerts, LAMBDA a : a.id # tab.alertId)]

\* markEmailSent up to its findIndex: the state of the tab after getAllAlerts
markEmailSentRead(ls, alertId) ==
    LET alerts == getAllAlerts(ls)
    IN  [pc |-> IF FindIndex(alerts, alertId) = 0 THEN "done" ELSE "readMark",
         op |-> "markEmailSent", alertId |-> alertId, alert |-> <<>>,
         existingAlerts |-> alerts, ret |-> FALSE]

\* the setItem that ends markEmailSent
markEmailSentWrite(ls, tab) ==
    [ls EXCEPT ![STORAGE_KEY] =
        [tab.existingAlerts EXCEPT ![FindIndex(tab.existingAlerts, tab.alertId)].emailSent = TRUE]]

TabReadsToDelete(t, alertId) ==
    /\ tabs[t].pc = "idle"
    /\ tabs' = [tabs EXCEPT ![t] = deleteAlertRead(localStorage, alertId)]
    /\ last' = Done("tabReadsToDelete", alertId, TRUE, t, FALSE, <<>>)
    /\ UNCHANGED <<localStorage, criticalAlerts, now, created, exported, panel, dashboard>>

TabWritesDeleted(t) ==
    /\ tabs[t].pc = "readDelete"
    /\ localStorage' = deleteAlertWrite(localStorage, tabs[t])
    /\ tabs' = [tabs EXCEPT ![t].pc = "done", ![t].ret = TRUE]
    /\ last' = Done("tabWritesDeleted", tabs[t].alertId, TRUE, t, FALSE, <<>>)
    /\ UNCHANGED <<criticalAlerts, now, created, exported, panel, dashboard>>

TabReadsToMark(t, alertId) ==
    /\ tabs[t].pc = "idle"
    /\ tabs' = [tabs EXCEPT ![t] = markEmailSentRead(localStorage, alertId)]
    /\ last' = Done("tabReadsToMark", alertId, tabs'[t].pc # "done", t, FALSE, <<>>)
    /\ UNCHANGED <<localStorage, criticalAlerts, now, created, exported, panel, dashboard>>

TabWritesMarked(t) ==
    /\ tabs[t].pc = "readMark"
    /\ localStorage' = markEmailSentWrite(localStorage, tabs[t])
    /\ tabs' = [tabs EXCEPT ![t].pc = "done", ![t].ret = TRUE]
    /\ last' = Done("tabWritesMarked", tabs[t].alertId, TRUE, t, FALSE, <<>>)
    /\ UNCHANGED <<criticalAlerts, now, created, exported, panel, dashboard>>

(* Spec: the Alert Store driven through its own operations.                *)

Next ==
    \/ \E device \in Telemetry : SaveAlert(device, NoFault)
    \/ CleanupOldAlerts(NoFault)
    \/ \E alertId \in AlertIds : DeleteAlert(alertId, NoFault)
    \/ \E alertId \in AlertIds : MarkEmailSent(alertId, NoFault)
    \/ ClearAllAlerts
    \/ ClearArchivedAlerts

Spec == Init /\ [][Next]_vars

(* SpecDetect: the dashboard polling, detecting and cleaning up.           *)

NextDetect ==
    \/ \E devices \in Batches : DetectCriticalAlerts(devices, NoFault)
    \/ HandleCleanup(NoFault)
    \/ ClearCache
    \/ HandleFocus

SpecDetect == Init /\ [][NextDetect]_vars

(* SpecFault: the Alert Store when a setItem may throw (quota exceeded).   *)

NextFault ==
    \/ \E device \in Telemetry, fail \in Faults : SaveAlert(device, fail)
    \/ \E fail \in Faults : CleanupOldAlerts(fail)
    \/ \E alertId \in AlertIds, fail \in Faults : DeleteAlert(alertId, fail)
    \/ \E alertId \in AlertIds, fail \in Faults : MarkEmailSent(alertId, fail)
    \/ ClearAllAlerts
    \/ ClearArchivedAlerts

SpecFault == Init /\ [][NextFault]_vars

(* SpecImport: the Alert Store with importAlerts.  The documents hold the  *)
(* first k alerts of a sample list, for k up to one past the archive cap.  *)

SampleReadings ==
    << Reading("A", OldStamp, TRUE,  FALSE, 121),
       Reading("A", NewStamp, FALSE, TRUE,  91),
       Reading("B", OldStamp, TRUE,  TRUE,  101),
       Reading("B", NewStamp, FALSE, TRUE,  90) >>

SampleAlert(i, arch) ==
    LET a == NewAlert(SampleReadings[((i - 1) % Len(SampleReadings)) + 1])
    IN  [a EXCEPT !.severity = classifyAlertSeverity(a), !.archived = arch]

Collections(arch) ==
    {[isArray |-> FALSE, items |-> <<>>]} \cup
    {[isArray |-> TRUE, items |-> [i \in 1..k |-> SampleAlert(i, arch)]] :
        k \in 0..(MAX_ARCHIVED_ALERTS + 1)}

ImportDocs ==
    [json : {TRUE}, activeAlerts : Collections(FALSE), archivedAlerts : Collections(TRUE)]
       \cup {NotJson}

NextImport ==
    \/ Next
    \/ \E doc \in ImportDocs : ImportAlerts(doc, NoFault)

SpecImport == Init /\ [][NextImport]_vars

----------------------------------------------------------------------------
(* SpecImportFault: SpecImport with writes of importAlerts that may fail.   *)

NextImportFault ==
    \/ Next
    \/ \E doc \in ImportDocs, fail \in Faults : ImportAlerts(doc, fail)

SpecImportFault == Init /\ [][NextImportFault]_vars

----------------------------------------------------------------------------
(* SpecExport: export, clear, import and the reads, from a store that      *)
(* holds the first a sample alerts as active and b others as archived, up  *)
(* to one past each cap (the states an import leaves).                     *)

SampleStores ==
    {[k \in Keys |->
        IF k = STORAGE_KEY THEN [i \in 1..a |-> SampleAlert(i, FALSE)]
        ELSE IF k = ARCHIVED_KEY
        THEN [i \in 1..b |-> [SampleAlert(i + 1, TRUE) EXCEPT !.emailSent = TRUE]]
        ELSE <<>>] :
        a \in 0..(MAX_ACTIVE_ALERTS + 1), b \in 0..(MAX_ARCHIVED_ALERTS + 1)}

InitExport ==
    /\ localStorage \in SampleStores
    /\ criticalAlerts = <<>>
    /\ now = Today
    /\ created = {}
    /\ last = [op |-> "init", id |-> "", ret |-> TRUE, count |-> 0, raised |-> FALSE,
               cycle |-> <<>>, size |-> 0, doc |-> NotJson]
    /\ exported = NoExport
    /\ panel = NoPanel
    /\ dashboard = NoDashboard
    /\ tabs = NoTabs

NextExport ==
    \/ \E includeArchived \in BOOLEAN : ExportAlerts(includeArchived)
    \/ ImportExported
    \/ ClearAllAlerts
    \/ ClearArchivedAlerts
    \/ GetAllAlerts
    \/ GetArchivedAlerts
    \/ \E deviceId \in {"A", "B"} : GetAlertsByDevice(deviceId)
    \/ \E status \in {"PANIC", "FALL"} : GetAlertsByStatus(status)
    \/ \E startDay \in {DateDay(OldStamp), DateDay(NewStamp)} :
          GetAlertsByDateRange(startDay, DateDay(NewStamp))
    \/ GetStorageStats

SpecExport == InitExport /\ [][NextExport]_vars

----------------------------------------------------------------------------
(* SpecPanel: the control panel over a store of sample alerts, some of     *)
(* them marked as sent through the store.                                  *)

NextPanel ==
    \/ LoadCriticalAlerts
    \/ \E i \in 1..(MAX_ACTIVE_ALERTS + 1), ok \in BOOLEAN : SendAlertEmail(i, ok)
    \/ SendAllPendingEmails
    \/ \E ok \in BOOLEAN : SendNextPending(ok)
    \/ BulkSendCompleted
    \/ \E alertId \in AlertIds : MarkEmailSent(alertId, NoFault)

SpecPanel == InitExport /\ [][NextPanel]_vars

----------------------------------------------------------------------------
(* SpecTimers: the dashboard mounting, toggling auto-refresh, re-running   *)
(* its effect and unmounting, with its timers firing; the endpoint        *)
(* delivers nothing or one of two readings.  SpecPoll: the same with every *)
(* batch of readings.                                                      *)

Responses(batches) ==
    {[ok |-> FALSE, devices |-> <<>>]} \cup {[ok |-> TRUE, devices |-> b] : b \in batches}

NextPoll(batches) ==
    \/ Mount
    \/ ToggleAutoRefresh
    \/ EffectRerun
    \/ Unmount
    \/ \E kind \in {"poll", "freshness"}, stale \in BOOLEAN : TimerFires(kind, stale)
    \/ HandleManualRefresh
    \/ \E response \in Responses(batches), i \in 1..MaxInFlight : FetchCompleted(response, i)

SpecTimers == Init /\ [][NextPoll({<<>>, <<SampleReadings[1]>>, <<SampleReadings[2]>>})]_vars

SpecPoll == Init /\ [][NextPoll(Batches \cup {<<>>})]_vars

----------------------------------------------------------------------------
(* SpecHistory: the polling dashboard with an endpoint that delivers       *)
(* readings of two devices at three times, none of them critical, one of   *)
(* them in two versions, alone or in pairs.                                *)

HistoryReadings ==
    << Reading("A", OldStamp,  FALSE, FALSE, 70),
       Reading("A", NewStamp,  FALSE, FALSE, 70),
       Reading("A", LateStamp, FALSE, FALSE, 70),
       Reading("A", NewStamp,  FALSE, FALSE, 80),
       Reading("B", OldStamp,  FALSE, FALSE, 70),
       Reading("B", NewStamp,  FALSE, FALSE, 70) >>

HistoryBatches ==
    {<<HistoryReadings[i]>> : i \in 1..Len(HistoryReadings)}
       \cup {<<HistoryReadings[2], HistoryReadings[4]>>,
             <<HistoryReadings[5], HistoryReadings[1]>>}

SpecHistory == Init /\ [][NextPoll(HistoryBatches)]_vars

----------------------------------------------------------------------------
(* SpecSession: the dashboard of SpecDetect with its Logout button, while  *)
(* the control panel or another tab may clear the active collection.       *)

NextSession ==
    \/ NextDetect
    \/ HandleLogout
    \/ ClearAllAlerts

SpecSession == Init /\ [][NextSession]_vars

----------------------------------------------------------------------------
(* SpecTabs: two tabs each run one saveAlert, step by step, on a store of  *)
(* sample alerts.                                                          *)

NextTabs ==
    \/ \E t \in Tabs, device \in Telemetry : TabReads(t, device)
    \/ \E t \in Tabs : TabArchives(t)
    \/ \E t \in Tabs : TabWrites(t)

SpecTabs == InitExport /\ [][NextTabs]_vars

----------------------------------------------------------------------------
(* SpecTabOps: two tabs each run one of saveAlert, deleteAlert and         *)
(* markEmailSent, step by step, on a store of sample alerts.               *)

NextTabOps ==
    \/ NextTabs
    \/ \E t \in Tabs, alertId \in AlertIds : TabReadsToDelete(t, alertId)
    \/ \E t \in Tabs : TabWritesDeleted(t)
    \/ \E t \in Tabs, alertId \in AlertIds : TabReadsToMark(t, alertId)
    \/ \E t \in Tabs : TabWritesMarked(t)

SpecTabOps == InitExport /\ [][NextTabOps]_vars

----------------------------------------------------------------------------
(* Properties                                                              *)

active == getAllAlerts(localStorage)

archived == getArchivedAlerts(localStorage)

TypeOK == Len(active) >= 0

\* C1: a saveAlert whose id is already in the active collection returns
\* false and changes neither collection; a saveAlert that follows a saveAlert
\* of the same id returns false and leaves exactly one active record with
\* that id.
C1_DuplicateRejected ==
    [][ /\ (last'.op = "saveAlert" /\ HasId(active, last'.id))
            => (last'.ret = FALSE /\ localStorage' = localStorage)
        /\ (last.op = "saveAlert" /\ last'.op = "saveAlert" /\ last'.id = last.id)
            => (last'.ret = FALSE /\ CountId(active', last'.id) = 1) ]_vars

C1_Witness ==
    /\ last.op = "saveAlert"
    /\ last.ret = FALSE
    /\ CountId(active, last.id) = 1
    /\ Len(archived) > 0

\* C2: no alert id occurs more than once in the active collection followed
\* by the archived collection.
C2_UniqueIds ==
    \A id \in AlertIds : CountId(active \o archived, id) <= 1

\* C3: the detector's saveAlert returns true for an alert id at most once:
\* a detection cycle never saves an id that an earlier cycle has saved.
C3_CreatedOnce ==
    [][ last'.op = "detect" =>
          \A i \in 1..Len(last'.cycle) :
             last'.cycle[i].saved => last'.cycle[i].submitted[1].id \notin created ]_vars

\* C4: in a detection cycle a reading is submitted to saveAlert if and only
\* if a status flag is set, the heartbeat is above 90 and no active record
\* has the reading's id; the first reading is compared with the active
\* collection as the cycle found it.
C4_SubmittedIffCritical ==
    [][ last'.op = "detect" =>
          /\ \A i \in 1..Len(last'.cycle) :
                LET e == last'.cycle[i]
                    d == e.device
                IN  (Len(e.submitted) = 1) <=>
                       ( /\ d.panicstatus \/ d.fallstatus
                         /\ d.heartbeat > 90
                         /\ ~e.existed )
          /\ LET d == last'.cycle[1].device
             IN  last'.cycle[1].existed <=> HasId(active, d.id \o "-" \o d.timestamp) ]_vars

C4_Witness ==
    /\ last.op = "detect"
    /\ last.size = MAX_ACTIVE_ALERTS
    /\ \E i \in 1..Len(last.cycle) :
          /\ last.cycle[i].device.heartbeat = 91
          /\ last.cycle[i].device.fallstatus
          /\ ~last.cycle[i].existed
          /\ Len(last.cycle[i].submitted) = 1
          /\ last.cycle[i].saved

\* C5: every record the detector submits has id = deviceId-timestamp,
\* emailSent = false, status PANIC whenever panicstatus is set and status
\* FALL only when panicstatus is clear and fallstatus is set.
C5_SubmittedRecord ==
    \A i \in 1..Len(last.cycle) :
       \A k \in 1..Len(last.cycle[i].submitted) :
          LET d == last.cycle[i].device
              a == last.cycle[i].submitted[k]
          IN  /\ a.id = d.id \o "-" \o d.timestamp
              /\ a.emailSent = FALSE
              /\ d.panicstatus => a.status = "PANIC"
              /\ a.status = "FALL" <=> (~d.panicstatus /\ d.fallstatus)

C5_Witness ==
    /\ last.op = "detect"
    /\ \E i \in 1..Len(last.cycle) :
          /\ last.cycle[i].device.panicstatus
          /\ last.cycle[i].device.fallstatus
          /\ Len(last.cycle[i].submitted) = 1
          /\ last.cycle[i].submitted[1].status = "PANIC"
          /\ last.cycle[i].saved

SeverityFor(heartbeat) ==
    IF heartbeat > 120 THEN "CRITICAL"
    ELSE IF heartbeat > 100 /\ heartbeat <= 120 THEN "HIGH"
    ELSE IF heartbeat > 90 /\ heartbeat <= 100 THEN "MEDIUM"
    ELSE "LOW"

\* C6: every stored record, active or archived, carries the severity that
\* its heartbeat maps to, in every state reached through saveAlert,
\* markEmailSent, overflow archival and cleanupOldAlerts.
C6_SeverityOfHeartbeat ==
    \A i \in 1..Len(active \o archived) :
       (active \o archived)[i].severity = SeverityFor((active \o archived)[i].heartbeat)

C6_Witness ==
    /\ Len(active) = 1
    /\ active[1].severity \in {"CRITICAL", "MEDIUM"}
    /\ \E i \in 1..Len(archived) :
          /\ archived[i].severity = "LOW"
          /\ archived[i].emailSent
          /\ archived[i].archived

\* C7: the active collection never holds more than MAX_ACTIVE_ALERTS
\* records, importAlerts included.
C7_ActiveCapped ==
    Len(active) <= MAX_ACTIVE_ALERTS

C9_OverflowArchived ==
    [][ last'.op = "saveAlert" =>
          \A i \in 1..Len(active) :
             ~HasId(active', active[i].id) => HasId(archived', active[i].id) ]_vars

\* the records that left the active collection in this step, flagged
Moved == MarkArchived(SelectSeq(active, LAMBDA a : ~HasId(active', a.id)))

\* an archival keeps the head of the moved records followed by the archive
ArchivalTruncates ==
    (last'.op \in {"saveAlert", "cleanupOldAlerts"} /\ archived' # archived) =>
       archived' = Take(Moved \o archived, MAX_ARCHIVED_ALERTS)

\* C10: the archived collection never holds more than MAX_ARCHIVED_ALERTS
\* records, and an archival keeps the first MAX_ARCHIVED_ALERTS entries of
\* the newly archived records followed by the existing archive.
C10_ArchiveCapped ==
    [][ Len(archived') <= MAX_ARCHIVED_ALERTS /\ ArchivalTruncates ]_vars

\* alerts holds a record equal to a in every field
Holds(alerts, a) == \E j \in 1..Len(alerts) : alerts[j] = a

\* a as it is written to the archive
Flagged(a) == [a EXCEPT !.archived = TRUE]

\* the archive was cut at its cap in this step
CutAtCap == Len(archived') = MAX_ARCHIVED_ALERTS /\ archived' # archived

\* C11: a stored record's emailSent never goes from true back to false: an
\* active record with emailSent = true is, after any store operation, still
\* in active unchanged, or in the archive with emailSent = true, unless it was
\* deleted by id or cleared; an archived one stays as it is unless cleared or
\* cut at the cap; and every record saveAlert or cleanupOldAlerts moves out of
\* active is in the archive with the emailSent value it had.
C11_EmailSentMonotone ==
    [][ /\ \A i \in 1..Len(active) : active[i].emailSent =>
              \/ Holds(active', active[i])
              \/ Holds(archived', Flagged(active[i]))
              \/ last'.op = "clearAllAlerts"
              \/ last'.op = "deleteAlert" /\ last'.id = active[i].id
        /\ \A i \in 1..Len(archived) : archived[i].emailSent =>
              \/ Holds(archived', archived[i])
              \/ last'.op = "clearArchivedAlerts"
              \/ CutAtCap
        /\ \A i \in 1..Len(active) :
              (last'.op \in {"saveAlert", "cleanupOldAlerts"} /\ ~HasId(active', active[i].id))
                 => Holds(archived', Flagged(active[i])) ]_vars

\* a record whose email was sent has just been moved to the archive by an
\* overflowing saveAlert and still says so
C11_Witness ==
    /\ last.op = "saveAlert"
    /\ last.ret = TRUE
    /\ last.size = MAX_ACTIVE_ALERTS
    /\ Len(archived) > 0
    /\ archived[1].emailSent = TRUE
    /\ archived[1].archived = TRUE
    /\ \A i \in 1..Len(active) : active[i].emailSent = FALSE

\* C12: a record of the active or the archived collection stays in their
\* union until deleteAlert is called with its id, clearAllAlerts or
\* clearArchivedAlerts runs, or the archive is cut at its cap: after every
\* other step (saveAlert, cleanupOldAlerts, markEmailSent, a detection cycle,
\* the dashboard's cache clearing) an active record is still active or is in
\* the archive, and an archived record is still in the archive.
C12_StaysUntilRemoved ==
    [][ /\ \A i \in 1..Len(active) :
              \/ HasId(active', active[i].id)
              \/ HasId(archived', active[i].id)
              \/ last'.op = "clearAllAlerts"
              \/ last'.op = "deleteAlert" /\ last'.id = active[i].id
        /\ \A i \in 1..Len(archived) :
              \/ Holds(archived', archived[i])
              \/ last'.op = "clearArchivedAlerts"
              \/ CutAtCap ]_vars

\* C13: no record flagged archived = true is in the active collection, in any
\* state the store reaches by its operations other than importAlerts: nothing
\* comes back from the archive.
C13_NoArchivedInActive ==
    \A i \in 1..Len(active) : active[i].archived = FALSE

\* saveAlert has just stored an id that the archive also holds: the active
\* record is a new one, the flagged one is still in the archive
C13_Witness ==
    /\ last.op = "saveAlert"
    /\ last.ret = TRUE
    /\ \E i \in 1..Len(archived) : archived[i].id = last.id /\ archived[i].archived = TRUE
    /\ \E i \in 1..Len(active) : active[i].id = last.id /\ active[i].archived = FALSE

\* the active records older than the cutoff of a cleanup run now
Outdated == SelectSeq(active, LAMBDA a : DateDay(a.timestamp) < now - DefaultDaysToKeep)

\* the active records at or after that cutoff
Recent == SelectSeq(active, LAMBDA a : DateDay(a.timestamp) >= now - DefaultDaysToKeep)

C15_ExportImportRoundTrip ==
    [][ ( /\ last'.op = "importAlerts"
          /\ last'.doc = exported.doc
          /\ exported.has
          /\ exported.includeArchived
          /\ active = <<>>
          /\ archived = <<>> )
        => ( /\ last'.ret = TRUE
             /\ active' = getAllAlerts(exported.from)
             /\ archived' = getArchivedAlerts(exported.from) ) ]_vars

\* a store with active and archived records was exported with the archive,
\* emptied, and has the document imported back
C15_Witness ==
    /\ last.op = "importAlerts"
    /\ last.ret = TRUE
    /\ last.size = 0
    /\ exported.includeArchived
    /\ Len(getAllAlerts(exported.from)) > 0
    /\ Len(getArchivedAlerts(exported.from)) > 0
    /\ localStorage = exported.from

C17_NeverRaises == last.raised = FALSE

\* C18: importAlerts returns false for every malformed document: a text that
\* is not JSON, and a JSON document in which neither activeAlerts nor
\* archivedAlerts is an array.
C18_MalformedRejected ==
    ( /\ last.op = "importAlerts"
      /\ \/ ~last.doc.json
         \/ ~last.doc.activeAlerts.isArray /\ ~last.doc.archivedAlerts.isArray )
    => last.ret = FALSE

\* C19: an importAlerts that returns false leaves both persisted collections
\* exactly as they were.
C19_FailedImportChangesNothing ==
    [][ (last'.op = "importAlerts" /\ last'.ret = FALSE)
           => localStorage' = localStorage ]_vars

ReadOps ==
    {"exportAlerts", "getAllAlerts", "getArchivedAlerts", "getAlertsByDevice",
     "getAlertsByStatus", "getAlertsByDateRange", "getStorageStats"}

\* C20: exportAlerts, getAllAlerts, getArchivedAlerts, the three filters and
\* getStorageStats leave every persisted key as it was; the document of
\* exportAlerts holds the whole active collection, and the whole archive when
\* called with true, an empty archivedAlerts list when called with false.
C20_ReadsChangeNothing ==
    [][ /\ last'.op \in ReadOps => localStorage' = localStorage
        /\ last'.op = "exportAlerts" =>
              /\ exported'.doc.json
              /\ exported'.doc.activeAlerts = [isArray |-> TRUE, items |-> active]
              /\ exported'.doc.archivedAlerts =
                    [isArray |-> TRUE,
                     items |-> IF exported'.includeArchived THEN archived ELSE <<>>] ]_vars

\* exportAlerts(false) has just run on a store with active and archived
\* records: the document has the active ones and no archived one
C20_Witness ==
    /\ last.op = "exportAlerts"
    /\ exported.has
    /\ ~exported.includeArchived
    /\ Len(active) > 0
    /\ Len(archived) > 0
    /\ exported.doc.activeAlerts.items = active
    /\ exported.doc.archivedAlerts.items = <<>>
    /\ exported.from = localStorage

EmailSentOf(alerts, id) == alerts[FindIndex(alerts, id)].emailSent

\* C22: when sendAlertEmail has completed for an alert that is active and
\* the external send succeeded, the stored record of that id has emailSent =
\* true; when the send failed the stored flag is what it was.
C22_SentIsMarked ==
    [][ (last'.op = "sendAlertEmail" /\ HasId(active, last'.id)) =>
           /\ HasId(active', last'.id)
           /\ EmailSentOf(active', last'.id) =
                 IF last'.ret THEN TRUE ELSE EmailSentOf(active, last'.id) ]_vars

\* the number of attempted sends with the given outcome
Outcomes(attempted, ok) == Len(SelectSeq(attempted, LAMBDA t : t.ok = ok))

\* C23: when a bulk send has finished, its success count is the number of
\* pending alerts whose send succeeded and its failure count the number whose
\* send failed; the two add up to the number of alerts pending at the start.
C23_BulkCounts ==
    last.op = "bulkSendCompleted" =>
       /\ panel.successCount = Outcomes(panel.attempted, TRUE)
       /\ panel.failCount = Outcomes(panel.attempted, FALSE)
       /\ panel.successCount + panel.failCount = Len(panel.pending)

\* C24: a bulk send attempts the alerts that were pending in the list when it
\* started, one after the other in list order and each once, whatever the
\* outcome of the sends before: the sends attempted so far are the first
\* index pending alerts, and when the bulk send has finished they are all of
\* them.
C24_EachPendingOnce ==
    [][ /\ last'.op = "sendAllPendingEmails" =>
              panel'.pending = SelectSeq(panel.alerts, LAMBDA a : ~a.emailSent)
        /\ Len(panel'.attempted) = panel'.index
        /\ panel'.index <= Len(panel'.pending)
        /\ \A i \in 1..Len(panel'.attempted) : panel'.attempted[i].id = panel'.pending[i].id
        /\ last'.op = "bulkSendCompleted" => panel'.index = Len(panel'.pending) ]_vars

\* a bulk send over two pending alerts has finished; its first send failed
\* and its second one succeeded
C24_Witness ==
    /\ last.op = "bulkSendCompleted"
    /\ Len(panel.pending) = 2
    /\ Len(panel.attempted) = 2
    /\ panel.attempted[1].ok = FALSE
    /\ panel.attempted[2].ok = TRUE

\* C29: cleanupOldAlerts loses no record: every record that was active before
\* the call is afterwards active or in the archive, unless the archive was cut
\* at its cap.
C29_CleanupLosesNothing ==
    [][ last'.op = "cleanupOldAlerts" =>
           \A i \in 1..Len(active) :
              \/ Holds(active', active[i])
              \/ Holds(archived', Flagged(active[i]))
              \/ Len(archived') = MAX_ARCHIVED_ALERTS /\ archived' # archived ]_vars

\* C30: a saveAlert that returns false, for a duplicate or for a failed
\* write, leaves the active and the archived collection exactly as they were.
C30_FailedSaveChangesNothing ==
    [][ (last'.op = "saveAlert" /\ last'.ret = FALSE)
           => localStorage' = localStorage ]_vars

\* the timers of one kind that the browser holds
TimersOf(kind) == {t \in dashboard.timers : t.kind = kind}

\* C25: while the dashboard is unmounted or auto-refresh is off, the browser
\* holds neither a poll timer nor a freshness timer of it; at any time it holds
\* at most one of each, and those are the ones the two refs name.
C25_NoOrphanedTimers ==
    /\ (~dashboard.mounted \/ ~dashboard.isAutoRefreshEnabled) => dashboard.timers = {}
    /\ Cardinality(TimersOf("poll")) <= 1
    /\ Cardinality(TimersOf("freshness")) <= 1
    /\ \A t \in dashboard.timers :
          t.id = IF t.kind = "poll" THEN dashboard.intervalRef
                 ELSE dashboard.freshnessIntervalRef

\* auto-refresh has just been switched back on, with a fetch still in
\* flight: one timer of each kind runs
C25_Witness ==
    /\ last.op = "toggleAutoRefresh"
    /\ dashboard.mounted
    /\ dashboard.isAutoRefreshEnabled
    /\ dashboard.inflight = MaxInFlight
    /\ Cardinality(TimersOf("poll")) = 1
    /\ Cardinality(TimersOf("freshness")) = 1

\* C26: within one tab no fetchData call starts while an earlier one has not
\* finished its detection.
C26_PollsSerialized ==
    [][ dashboard'.inflight > dashboard.inflight => dashboard.inflight = 0 ]_vars

\* C28: when the telemetry fetch of a mounted dashboard fails, the error
\* message becomes the failed-to-fetch text and the readings displayed stay
\* those of the last good fetch.
C28_FailedFetchKeepsData ==
    [][ (last'.op = "fetchCompleted" /\ last'.ret = FALSE /\ dashboard.mounted) =>
           /\ dashboard'.error = "Failed to fetch data"
           /\ dashboard'.data = dashboard.data ]_vars

\* C27: whatever the order in which two tabs read and write while they run
\* saveAlert, for the same id too, no id is twice in the active collection.
C27_NoDuplicateAcrossTabs ==
    \A id \in AlertIds : CountId(active, id) <= 1

\* both tabs have run saveAlert for the same id and both have written, each
\* having read before the other wrote: the id is active once
C27_Witness ==
    /\ tabs[1].pc = "done" /\ tabs[1].ret = TRUE
    /\ tabs[2].pc = "done" /\ tabs[2].ret = TRUE
    /\ tabs[1].alert[1].id = tabs[2].alert[1].id
    /\ Len(tabs[1].existingAlerts) > 0
    /\ CountId(active, tabs[1].alert[1].id) = 1

\* C31: after the Clear Cache button, and after Logout, the active
\* collection and the archive are both empty.
C31_ClearCacheEmptiesStore ==
    [][ last'.op \in {"clearCache", "handleLogout"}
          => active' = <<>> /\ archived' = <<>> ]_vars

\* C32: importAlerts replaces a collection exactly when the document holds
\* an array under its key, and then the collection is that array, whatever
\* it held before; the other collection stays as it was.
C32_ImportReplacesPerKey ==
    [][ last'.op = "importAlerts" =>
          /\ active' = IF last'.doc.json /\ last'.doc.activeAlerts.isArray
                       THEN last'.doc.activeAlerts.items
                       ELSE active
          /\ archived' = IF last'.doc.json /\ last'.doc.archivedAlerts.isArray
                         THEN last'.doc.archivedAlerts.items
                         ELSE archived ]_vars

\* a document with only activeAlerts was imported into a store with an
\* archive: the active collection is the document's array, the archive is kept
C32_Witness ==
    /\ last.op = "importAlerts"
    /\ last.ret
    /\ last.doc.activeAlerts.isArray
    /\ ~last.doc.archivedAlerts.isArray
    /\ Len(last.doc.activeAlerts.items) > 0
    /\ active = last.doc.activeAlerts.items
    /\ Len(archived) > 0

\* C33: the dashboard's in-memory list of critical alerts never holds two
\* entries with the same alert id.
C33_InMemoryListNoDuplicate ==
    \A i, j \in 1..Len(criticalAlerts) :
        criticalAlerts[i].id = criticalAlerts[j].id => i = j

\* C34: an alert whose email was sent successfully by a bulk send, the list
\* having been reloaded when that bulk send finished, is not among the
\* pending alerts the next bulk send sends for.
C34_SentOnceOnly ==
    [][ last'.op = "sendAllPendingEmails" =>
           \A i \in 1..Len(panel.attempted) :
              panel.attempted[i].ok => ~HasId(panel'.pending, panel.attempted[i].id) ]_vars

\* C35: when a tab has completed markEmailSent(id) and the other tab has
\* finished its own operation (saveAlert, or deleteAlert or markEmailSent of
\* another id), however their reads and writes were interleaved, the active
\* record of that id has emailSent = true.
C35_MarkSurvivesOtherTab ==
    \A t1, t2 \in Tabs :
       ( /\ t1 # t2
         /\ tabs[t1].pc = "done" /\ tabs[t1].op = "markEmailSent" /\ tabs[t1].ret
         /\ tabs[t2].pc = "done"
         /\ tabs[t2].op = "saveAlert" \/ tabs[t2].alertId # tabs[t1].alertId
         /\ HasId(active, tabs[t1].alertId) )
       => EmailSentOf(active, tabs[t1].alertId)

\* C36: when the two tabs have run saveAlert for two different alert ids and
\* both calls have returned true, both ids are in the active collection or in
\* the archive.
C36_BothSavesKept ==
    ( /\ \A t \in Tabs : tabs[t].pc = "done" /\ tabs[t].op = "saveAlert" /\ tabs[t].ret
      /\ tabs[1].alertId # tabs[2].alertId )
    => \A t \in Tabs : HasId(active, tabs[t].alertId) \/ HasId(archived, tabs[t].alertId)

\* C37: when a fetch resolves that started before a fetch that has already
\* resolved, the readings displayed stay those of the newer fetch.
C37_NewestResponseShown ==
    [][ (last'.op = "fetchCompleted" /\ dashboard'.overtaken < dashboard.overtaken)
          => dashboard'.data = dashboard.data ]_vars

\* C38: importing the document of exportAlerts(false) returns true, makes the
\* active collection the exported active list and the archive the empty
\* list, whatever the archive of the importing store held.
C38_ImportOfActiveExportErasesArchive ==
    [][ ( /\ last'.op = "importAlerts"
          /\ exported.has
          /\ ~exported.includeArchived
          /\ last'.doc = exported.doc )
        => ( /\ last'.ret = TRUE
             /\ active' = getAllAlerts(exported.from)
             /\ archived' = <<>> ) ]_vars

\* a store with active and archived records was exported without the
\* archive and has the document imported: its archive is gone
C38_Witness ==
    /\ last.op = "importAlerts"
    /\ last.ret = TRUE
    /\ exported.has
    /\ ~exported.includeArchived
    /\ last.doc = exported.doc
    /\ Len(getArchivedAlerts(exported.from)) > 0
    /\ Len(active) > 0
    /\ active = getAllAlerts(exported.from)
    /\ archived = <<>>

\* the historical store
history == localStorage[HISTORICAL_CACHE_KEY]

\* the timestamps of the readings of a device in a list of readings
StampsOf(readings, id) ==
    {readings[i].timestamp : i \in {j \in 1..Len(readings) : readings[j].id = id}}

\* the latest HistoryCap of a set of timestamps
Latest(stamps) ==
    {s \in stamps : Cardinality({u \in stamps : DateDay(u) > DateDay(s)}) < HistoryCap}

====
